---------------------------- MODULE Spec2Model ----------------------------
(***************************************************************************)
(* A model of streamlit_main.py: the cached food table, recommend_food     *)
(* (scoring, filtering, ranking, serving size) and the script around it.   *)
(*                                                                         *)
(* Strings are sequences of one-character strings.  An optional value is   *)
(* None (<<>>) or Some(v) (<<v>>): Python's None and a pandas NaN cell are *)
(* both None.  A DataFrame is [cols |-> set of column names, rows |-> the  *)
(* sequence of rows], a row being a function from cols to cell values.     *)
(***************************************************************************)
EXTENDS Integers, Sequences, FiniteSets, TLC

VARIABLES
    loaded,        \* what load_data returns: the concatenated sheets
    df,            \* the module-level df (line 92), the object passed to recommend_food
    pc,            \* "idle": before the button; "returned": recommend_food has returned
    args,          \* Some(arguments of the call that returned), None when idle
    remaining_df,  \* recommend_food's local remaining_df (line 75)
    ranked_df,     \* recommend_food's local ranked_df after line 79, before head()
    result,        \* the DataFrame recommend_food returned (line 86)
    carried        \* history: the frame passed to the call that returned still held
                   \* non-zero scores of an earlier call

vars == <<loaded, df, pc, args, remaining_df, ranked_df, result, carried>>

---------------------------------------------------------------------------
(* Bounds of the model *)

MaxRows == 3
MaxTopN == 2

---------------------------------------------------------------------------
(* Optional values *)

None == <<>>
Some(v) == <<v>>
IsNone(o) == Len(o) = 0
Get(o) == o[1]

---------------------------------------------------------------------------
(* Python str operations *)

UpperCase == <<"A","B","C","D","E","F","G","H","I","J","K","L","M",
               "N","O","P","Q","R","S","T","U","V","W","X","Y","Z">>
LowerCase == <<"a","b","c","d","e","f","g","h","i","j","k","l","m",
               "n","o","p","q","r","s","t","u","v","w","x","y","z">>

\* str.lower() on one character
LowerChar(c) ==
    IF \E i \in 1..Len(UpperCase) : UpperCase[i] = c
    THEN LowerCase[CHOOSE i \in 1..Len(UpperCase) : UpperCase[i] = c]
    ELSE c

\* str.lower()
lower(s) == [i \in 1..Len(s) |-> LowerChar(s[i])]

\* str.strip(): leading and trailing blanks removed
RECURSIVE lstrip(_)
lstrip(s) == IF s # <<>> /\ Head(s) = " " THEN lstrip(Tail(s)) ELSE s

RECURSIVE rstrip(_)
rstrip(s) ==
    IF s # <<>> /\ s[Len(s)] = " " THEN rstrip(SubSeq(s, 1, Len(s) - 1)) ELSE s

strip(s) == rstrip(lstrip(s))

\* str.split(','): the pieces between the commas, empty pieces kept
RECURSIVE split(_)
split(s) ==
    IF \E i \in 1..Len(s) : s[i] = ","
    THEN LET i == CHOOSE k \in 1..Len(s) :
                      s[k] = "," /\ \A j \in 1..(k - 1) : s[j] # ","
         IN  <<SubSeq(s, 1, i - 1)>> \o split(SubSeq(s, i + 1, Len(s)))
    ELSE <<s>>

\* [t.strip().lower() for t in prompt.split(',')]
Terms(prompt) == LET p == split(prompt) IN [i \in 1..Len(p) |-> lower(strip(p[i]))]

\* needle occurs in hay
Occurs(hay, needle) ==
    \E i \in 0..(Len(hay) - Len(needle)) : SubSeq(hay, i + 1, i + Len(needle)) = needle

\* str(n) for an integer n >= 0
Digits == <<"0","1","2","3","4","5","6","7","8","9">>

RECURSIVE str(_)
str(n) == IF n < 10 THEN <<Digits[n + 1]>> ELSE str(n \div 10) \o <<Digits[(n % 10) + 1]>>

\* a variant of ceil that always rounds past the quotient
ceil_FloorPlusOne(a, b) == (a \div b) + 1

\* math.ceil(a / b) for a >= 0, b > 0
ceil(a, b) == IF a % b = 0 THEN a \div b ELSE (a \div b) + 1

GramSuffix == <<" ","g","r","a","m">>

---------------------------------------------------------------------------
(* pandas DataFrame operations *)

Min(a, b) == IF a < b THEN a ELSE b

\* d[c] = series: the column c of d is set (added when absent), in place; a series
\* is a sequence with one value per row
WithColumn(d, c, series) ==
    [cols |-> d.cols \cup {c},
     rows |-> [i \in 1..Len(d.rows) |->
                 [k \in d.cols \cup {c} |-> IF k = c THEN series[i] ELSE d.rows[i][k]]]]

RECURSIVE SelectRows(_, _)
SelectRows(rows, mask) ==
    IF rows = <<>> THEN <<>>
    ELSE (IF Head(mask) THEN <<Head(rows)>> ELSE <<>>)
         \o SelectRows(Tail(rows), Tail(mask))

\* d[mask]: a new frame holding the rows of d whose entry of the boolean series is true
Filter(d, mask) == [cols |-> d.cols, rows |-> SelectRows(d.rows, mask)]

\* d.drop(columns=cs, errors='ignore'): a new frame
drop(d, cs) ==
    [cols |-> d.cols \ cs,
     rows |-> [i \in 1..Len(d.rows) |-> [k \in d.cols \ cs |-> d.rows[i][k]]]]

\* a variant of head that keeps one row too many
head_OneMore(d, n) == [cols |-> d.cols, rows |-> SubSeq(d.rows, 1, Min(n + 1, Len(d.rows)))]

\* d.head(n), n >= 0
head(d, n) == [cols |-> d.cols, rows |-> SubSeq(d.rows, 1, Min(n, Len(d.rows)))]

\* pd.concat([a, b]).reset_index(drop=True) of two frames with the same columns
concat(a, b) == [cols |-> a.cols \cup b.cols, rows |-> a.rows \o b.rows]

\* every reordering of the sequence s
Orderings(s) ==
    {[i \in 1..Len(s) |-> s[p[i]]] : p \in Permutations(1..Len(s))}

\* a variant of str_contains with na=True: a NaN cell matches every term
str_contains_NaMatches(cell, term) ==
    IF IsNone(cell) THEN TRUE ELSE Occurs(lower(Get(cell)), term)

\* series.str.lower().str.contains(term, na=False) on one cell: a NaN cell is no match
str_contains(cell, term) == IF IsNone(cell) THEN FALSE ELSE Occurs(lower(Get(cell)), term)

---------------------------------------------------------------------------
(* The sheets of food.xlsx *)

Row(no, ingredients, user_type, taste, per_serving, serving, calories) ==
    ("No" :> no) @@ ("Ingredients" :> ingredients) @@ ("User type" :> user_type)
    @@ ("Taste" :> taste) @@ ("Calories/Serving" :> per_serving)
    @@ ("Serving" :> serving) @@ ("Calories" :> calories)

SheetColumns ==
    {"No", "Ingredients", "User type", "Taste", "Calories/Serving", "Serving", "Calories"}

Foods ==
    << Row(1, Some(<<"B","e","e","f",",","r","i","c","e">>), Some(<<"g","a","i","n">>), Some(<<"r","i","c","h">>), 240, 100, 240),
       Row(2, Some(<<"p","o","r","k",",","r","i","c","e">>), None, Some(<<"S","w","e","e","t">>), 299, 100, 299),
       Row(3, None, Some(<<"G","a","i","n",",","n","o","r","m","a","l">>), Some(<<"s","w","e","e","t">>), 180, 50, 90),
       Row(4, Some(<<"c","h","i","c","k","e","n">>), Some(<<"n","o","r","m","a","l">>), None, 25, 200, 50),
       Row(5, Some(<<"R","i","c","e">>), Some(<<"a","t","h","l","e","t","e">>), Some(<<"r","i","c","h">>), 310, 100, 310) >>

\* pd.concat(excel_data.values(), ignore_index=True): the tables the model loads
Tables ==
    {[cols |-> SheetColumns, rows |-> SubSeq(Foods, 1, n)] :
        n \in 0..Min(MaxRows, Len(Foods))}

---------------------------------------------------------------------------
(* recommend_food, step by step *)

\* a variant of InitScore that zeroes the score only when the column is not there yet
InitScore_KeepExisting(d) ==
    IF "Ranking Score" \in d.cols THEN d
    ELSE WithColumn(d, "Ranking Score", [i \in 1..Len(d.rows) |-> 0])

\* line 26: df['Ranking Score'] = 0, on the caller's frame
InitScore(d) == WithColumn(d, "Ranking Score", [i \in 1..Len(d.rows) |-> 0])

\* a variant of calories_first_digit_prompt that takes the last character
calories_last_digit_prompt(target) == str(target)[Len(str(target))]

\* line 29: str(int(calories_prompt_per100)).split('.')[0][0]
calories_first_digit_prompt(target) == Head(str(target))

\* line 30: df['Calories/Serving_str_first_digit'] = ...astype(str).str[0], on the
\* caller's frame
AddFirstDigit(d) ==
    WithColumn(d, "Calories/Serving_str_first_digit",
               [i \in 1..Len(d.rows) |-> Head(str(d.rows[i]["Calories/Serving"]))])

\* lines 31-32: the rows of the bucket, as a new frame without the helper column
CalorieBucket(d, target) ==
    drop(Filter(d, [i \in 1..Len(d.rows) |->
                       d.rows[i]["Calories/Serving_str_first_digit"]
                           = calories_first_digit_prompt(target)]),
         {"Calories/Serving_str_first_digit"})

\* a variant of ScoreIncrement that ignores the priority flag
ScoreIncrement_Flat(prioritize) == 1

\* lines 37, 43, 49
ScoreIncrement(prioritize) == IF prioritize THEN 2 ELSE 1

\* df[col].str.lower().str.contains(term, na=False): a boolean series
ContainsMask(d, col, term) == [i \in 1..Len(d.rows) |-> str_contains(d.rows[i][col], term)]

\* lines 38-39, 44-45, 50-51: one df.loc[mask, 'Ranking Score'] += increment per term
RECURSIVE AddScores(_, _, _, _)
AddScores(d, col, terms, increment) ==
    IF terms = <<>> THEN d
    ELSE AddScores(
             WithColumn(d, "Ranking Score",
                        [i \in 1..Len(d.rows) |->
                            IF ContainsMask(d, col, Head(terms))[i]
                            THEN d.rows[i]["Ranking Score"] + increment
                            ELSE d.rows[i]["Ranking Score"]]),
             col, Tail(terms), increment)

\* `if prompt:` on an Optional[str]: None and '' are false
Truthy(prompt) == ~IsNone(prompt) /\ Get(prompt) # <<>>

\* lines 35-39, 41-45, 47-51
ScoreFacet(d, col, prompt, prioritize) ==
    IF Truthy(prompt)
    THEN AddScores(d, col, Terms(Get(prompt)), ScoreIncrement(prioritize))
    ELSE d

\* lines 35-53
Score(d, a) ==
    LET d39 == ScoreFacet(d, "Ingredients", a.ingredient_prompt, a.prioritize_ingredient)
        d45 == ScoreFacet(d39, "User type", a.user_type_prompt, a.prioritize_user_type)
    IN  ScoreFacet(d45, "Taste", a.taste_prompt, a.prioritize_taste)

\* lines 58-59, 62-63, 66-67: one df = df[~mask] per negative term
RECURSIVE DropMatching(_, _, _)
DropMatching(d, col, terms) ==
    IF terms = <<>> THEN d
    ELSE DropMatching(
             Filter(d, [i \in 1..Len(d.rows) |-> ~ContainsMask(d, col, Head(terms))[i]]),
             col, Tail(terms))

\* a variant of ExcludeFacet that looks the negative string up under the column's name
\* instead of the key's
ExcludeFacet_ColumnAsKey(d, col, negative, key) ==
    IF col \in DOMAIN negative /\ negative[col] # <<>>
    THEN DropMatching(d, col, Terms(negative[col]))
    ELSE d

\* lines 56, 60, 64: `key in negative_prompt and negative_prompt[key]`
ExcludeFacet(d, col, negative, key) ==
    IF key \in DOMAIN negative /\ negative[key] # <<>>
    THEN DropMatching(d, col, Terms(negative[key]))
    ELSE d

\* lines 55-67: `if negative_prompt:` is false for None and for {}
Exclude(d, a) ==
    IF IsNone(a.negative_prompt) \/ DOMAIN Get(a.negative_prompt) = {} THEN d
    ELSE LET n   == Get(a.negative_prompt)
             d59 == ExcludeFacet(d, "Ingredients", n, "Ingredient")
             d63 == ExcludeFacet(d59, "User type", n, "User Type")
         IN  ExcludeFacet(d63, "Taste", n, "Taste")

Descending(rows) ==
    \A i, j \in 1..Len(rows) :
        i < j => rows[i]["Ranking Score"] >= rows[j]["Ranking Score"]

\* a variant of SortValues that sorts ascending
SortValues_Ascending(d) ==
    {[cols |-> d.cols, rows |-> o] :
        o \in {p \in Orderings(d.rows) :
                  \A i, j \in 1..Len(p) :
                      i < j => p[i]["Ranking Score"] <= p[j]["Ranking Score"]}}

\* line 69: sort_values(by='Ranking Score', ascending=False) with the default
\* quicksort, which promises no order among equal scores
SortValues(d) ==
    {[cols |-> d.cols, rows |-> o] : o \in {p \in Orderings(d.rows) : Descending(p)}}

\* lines 70-71
DisplayFrame(d) == drop(d, {"No", "Serving", "Calories"})

\* line 73: Series.max(), NaN (None) on an empty frame
max_score(d) ==
    IF d.rows = <<>> THEN None
    ELSE Some(CHOOSE m \in {d.rows[i]["Ranking Score"] : i \in 1..Len(d.rows)} :
                  \A i \in 1..Len(d.rows) : d.rows[i]["Ranking Score"] <= m)

\* line 74
max_score_group(d) ==
    Filter(d, [i \in 1..Len(d.rows) |-> Some(d.rows[i]["Ranking Score"]) = max_score(d)])

\* line 75
RemainingRows(d) ==
    Filter(d, [i \in 1..Len(d.rows) |-> Some(d.rows[i]["Ranking Score"]) # max_score(d)])

\* line 77: sample(frac=1), any reordering of the group
Sample(d) == {[cols |-> d.cols, rows |-> o] : o \in Orderings(d.rows)}

\* line 84
ServingSize(desired_calories, r) ==
    str(ceil(desired_calories, r["Calories/Serving"])) \o GramSuffix

\* lines 81-84
Truncate(d, a) ==
    LET h == head(d, a.top_n)
    IN  IF IsNone(a.desired_calories) THEN h
        ELSE WithColumn(h, "Serving Size (grams)",
                        [i \in 1..Len(h.rows) |->
                            ServingSize(Get(a.desired_calories), h.rows[i])])

---------------------------------------------------------------------------
(* The arguments the model calls recommend_food with *)

\* (ingredient_prompt, prioritize_ingredient)
IngredientChoices ==
    {<<None, FALSE>>, <<Some(<<" ","B","e","e","f",","," ","R","I","C","E">>), FALSE>>, <<Some(<<" ","B","e","e","f",","," ","R","I","C","E">>), TRUE>>}

\* (user_type_prompt, prioritize_user_type)
UserTypeChoices ==
    {<<Some(<<>>), TRUE>>, <<Some(<<"g","a","i","n">>), FALSE>>, <<Some(<<"g","a","i","n">>), TRUE>>}

\* (taste_prompt, prioritize_taste)
TasteChoices ==
    {<<None, FALSE>>, <<Some(<<"S","W","E","E","T">>), TRUE>>}

NegativePrompts ==
    { None,
      Some(("Ingredient" :> <<"c","h","i","c","k","e","n",","," ","P","O","R","K">>) @@ ("Taste" :> <<>>)),
      Some(("User Type" :> <<"n","o","r","m","a","l">>) @@ ("Taste" :> <<"R","i","c","h">>)) }

DesiredCalories == {None, Some(480)}
CaloriePrompts == {None, Some(250)}

Arguments ==
    { [ calories_prompt_per100 |-> c,
        ingredient_prompt |-> i[1],
        user_type_prompt |-> u[1],
        taste_prompt |-> t[1],
        negative_prompt |-> n,
        top_n |-> k,
        desired_calories |-> g,
        prioritize_ingredient |-> i[2],
        prioritize_user_type |-> u[2],
        prioritize_taste |-> t[2] ] :
      c \in CaloriePrompts, i \in IngredientChoices, u \in UserTypeChoices,
      t \in TasteChoices, n \in NegativePrompts, k \in 0..MaxTopN,
      g \in DesiredCalories }

NoFrame == [cols |-> {}, rows |-> <<>>]

---------------------------------------------------------------------------
(* The script *)

Init ==
    /\ loaded \in Tables
    /\ df = loaded
    /\ pc = "idle"
    /\ args = None
    /\ remaining_df = NoFrame
    /\ ranked_df = NoFrame
    /\ result = NoFrame
    /\ carried = FALSE

\* line 92 of a rerun of the script: st.cache_data hands out the cached table anew
load_data ==
    /\ pc = "idle"
    /\ df' = loaded
    /\ UNCHANGED <<loaded, pc, args, remaining_df, ranked_df, result, carried>>

\* lines 19-86, one call recommend_food(df, **a).  Lines 26 and 30 write to the
\* caller's frame; without a calorie prompt the local df stays that frame, so the
\* += of lines 39, 45 and 51 write to it as well.
recommend_food(a) ==
    /\ pc = "idle"
    /\ LET bucket == ~IsNone(a.calories_prompt_per100)
           d26 == InitScore(df)
           d30 == IF bucket THEN AddFirstDigit(d26) ELSE d26
           d32 == IF bucket THEN CalorieBucket(d30, Get(a.calories_prompt_per100)) ELSE d26
           d53 == Score(d32, a)
           d67 == Exclude(d53, a)
       IN  /\ df' = IF bucket THEN d30 ELSE d53
           /\ \E sorted \in SortValues(d67) :
                  LET d71 == DisplayFrame(sorted)
                  IN  /\ remaining_df' = RemainingRows(d71)
                      /\ \E shuffled \in Sample(max_score_group(d71)) :
                             /\ ranked_df' = concat(shuffled, RemainingRows(d71))
                             /\ result' = Truncate(ranked_df', a)
    /\ args' = Some(a)
    /\ pc' = "returned"
    /\ carried' = /\ "Ranking Score" \in df.cols
                  /\ \E i \in 1..Len(df.rows) : df.rows[i]["Ranking Score"] > 0
    /\ UNCHANGED loaded

\* line 163: st.dataframe(recommended_foods); the run of the script ends
display ==
    /\ pc = "returned"
    /\ pc' = "idle"
    /\ args' = None
    /\ remaining_df' = NoFrame
    /\ ranked_df' = NoFrame
    /\ result' = NoFrame
    /\ carried' = FALSE
    /\ UNCHANGED <<loaded, df>>

Next ==
    \/ load_data
    \/ \E a \in Arguments : recommend_food(a)
    \/ display

Spec == Init /\ [][Next]_vars

---------------------------------------------------------------------------
(* What the specification says of a call, stated apart from the code above *)

Returned == pc = "returned"
Call == Get(args)

\* term (already lowercased) is a case-insensitive substring of a cell; a null cell
\* contains nothing
CaseInsensitiveIn(term, cell) ==
    /\ ~IsNone(cell)
    /\ \E k \in 0..(Len(Get(cell)) - Len(term)) :
           \A j \in 1..Len(term) : LowerChar(Get(cell)[k + j]) = term[j]

\* the terms of an include or exclude string; none when it is absent or empty
TermsOf(prompt) == IF IsNone(prompt) \/ Get(prompt) = <<>> THEN <<>> ELSE Terms(Get(prompt))

\* the points a facet's include string gives a cell
FacetPoints(cell, prompt, prioritize) ==
    Cardinality({i \in 1..Len(TermsOf(prompt)) : CaseInsensitiveIn(TermsOf(prompt)[i], cell)})
        * (IF prioritize THEN 2 ELSE 1)

ExpectedScore(r, a) ==
    FacetPoints(r["Ingredients"], a.ingredient_prompt, a.prioritize_ingredient)
    + FacetPoints(r["User type"], a.user_type_prompt, a.prioritize_user_type)
    + FacetPoints(r["Taste"], a.taste_prompt, a.prioritize_taste)

\* the negative string of a facet, None when the map or its key is absent
NegativeOf(a, key) ==
    IF IsNone(a.negative_prompt) THEN None
    ELSE IF key \in DOMAIN Get(a.negative_prompt) THEN Some(Get(a.negative_prompt)[key])
    ELSE None

Hit(cell, negative) ==
    \E i \in 1..Len(TermsOf(negative)) : CaseInsensitiveIn(TermsOf(negative)[i], cell)

Excluded(r, a) ==
    \/ Hit(r["Ingredients"], NegativeOf(a, "Ingredient"))
    \/ Hit(r["User type"], NegativeOf(a, "User Type"))
    \/ Hit(r["Taste"], NegativeOf(a, "Taste"))

\* the leading decimal digit of n >= 0, as a number
RECURSIVE LeadingDigit(_)
LeadingDigit(n) == IF n < 10 THEN n ELSE LeadingDigit(n \div 10)

InBucket(r, a) ==
    \/ IsNone(a.calories_prompt_per100)
    \/ LeadingDigit(r["Calories/Serving"]) = LeadingDigit(Get(a.calories_prompt_per100))

\* the columns a result shows of a food
ShownColumns == {"Ingredients", "User type", "Taste", "Calories/Serving"}
Shown(r) == [k \in ShownColumns |-> r[k]]

RowsOf(d) == {d.rows[i] : i \in 1..Len(d.rows)}

\* the loaded foods that pass the calorie bucket and the exclusions of a call
Survivors(a) == {r \in RowsOf(loaded) : InBucket(r, a) /\ ~Excluded(r, a)}

---------------------------------------------------------------------------
(* Claims *)

C3_SourceTableUnchanged == df = loaded

\* C4: every call returns exactly the columns Ingredients, User type, Taste,
\* Calories/Serving and Ranking Score, plus Serving Size (grams) if and only if
\* desired_calories was given; No, Serving, Calories and the leading-digit helper
\* column never appear.
C4_OutputColumns ==
    Returned =>
        result.cols =
            ShownColumns \cup {"Ranking Score"}
            \cup (IF IsNone(Call.desired_calories) THEN {} ELSE {"Serving Size (grams)"})

\* the foods of a frame with their scores, without regard to order or other columns
Scored(d) ==
    {[food |-> Shown(d.rows[i]), score |-> d.rows[i]["Ranking Score"]] :
        i \in 1..Len(d.rows)}

\* the rows left after the filters, with their scores, of the call a made first on a
\* freshly loaded table
FirstCall(a) ==
    LET d26 == InitScore(loaded)
        d32 == IF IsNone(a.calories_prompt_per100) THEN d26
               ELSE CalorieBucket(AddFirstDigit(d26), Get(a.calories_prompt_per100))
    IN  Exclude(Score(d32, a), a)

\* C5: each call is independent of the calls before it: the rows surviving its filters
\* and their Ranking Scores are those of the same call made first on a freshly loaded
\* table; scores never carry over, every call starts every row at 0.
C5_CallsAreIndependent ==
    Returned => Scored(ranked_df) = Scored(FirstCall(Call))

\* a call that scored rows, on a frame still holding non-zero scores of an earlier call
C5_Witness ==
    /\ Returned
    /\ carried
    /\ \E i \in 1..Len(ranked_df.rows) : ranked_df.rows[i]["Ranking Score"] > 0

\* C6: for every top_n >= 0 the output has exactly min(top_n, number of rows surviving
\* the calorie bucket and the exclusions) rows; with no survivor it is an empty ranked
\* table, also when desired_calories is given.
C6_RowCount ==
    Returned =>
        /\ Len(result.rows) = Min(Call.top_n, Cardinality(Survivors(Call)))
        /\ \A i \in 1..Len(result.rows) : DOMAIN result.rows[i] = result.cols
        /\ "Ranking Score" \in result.cols

\* a non-empty table of which no row survives, top_n > 0 and desired_calories given
C6_Witness ==
    /\ Returned
    /\ loaded.rows # <<>>
    /\ Survivors(Call) = {}
    /\ Call.top_n > 0
    /\ ~IsNone(Call.desired_calories)
    /\ result.rows = <<>>

\* the rows of a frame without the serving size column
WithoutServing(d) == drop(d, {"Serving Size (grams)"}).rows

\* C7: the output's scores never increase from first row to last: before truncation
\* every row of the maximum score precedes every lower row, the lower rows keep the
\* descending order of the sort, and the output is the first top_n rows of that.
C7_Ranking ==
    Returned =>
        /\ Descending(result.rows)
        /\ Descending(remaining_df.rows)
        /\ \E k \in 0..Len(ranked_df.rows) :
               /\ \A i \in 1..k : \A j \in 1..Len(ranked_df.rows) :
                      ranked_df.rows[i]["Ranking Score"] >= ranked_df.rows[j]["Ranking Score"]
               /\ \A i \in (k + 1)..Len(ranked_df.rows) :
                      ranked_df.rows[i]["Ranking Score"] < ranked_df.rows[1]["Ranking Score"]
               /\ SubSeq(ranked_df.rows, k + 1, Len(ranked_df.rows)) = remaining_df.rows
        /\ WithoutServing(result)
               = SubSeq(ranked_df.rows, 1, Min(Call.top_n, Len(ranked_df.rows)))

\* a tie group larger than top_n, above a lower row, of which the output holds a food
\* that comes later in the table than another food of the group
C7_Witness ==
    /\ Returned
    /\ Call.top_n = 1
    /\ Len(result.rows) = 1
    /\ remaining_df.rows # <<>>
    /\ \E i, j \in 1..Len(loaded.rows) :
           /\ i < j
           /\ Shown(result.rows[1]) = Shown(loaded.rows[j])
           /\ \E q \in RowsOf(ranked_df) :
                  /\ Shown(q) = Shown(loaded.rows[i])
                  /\ q["Ranking Score"] = result.rows[1]["Ranking Score"]

\* C8: with a calorie-bucket target the call keeps exactly the rows whose
\* Calories/Serving has the target's leading digit; without one this step drops none.
C8_CalorieBucket ==
    Returned =>
        {Shown(r) : r \in RowsOf(ranked_df)} = {Shown(r) : r \in Survivors(Call)}

\* target 250 kept a food of 240 or 299 and dropped one of 180
C8_Witness ==
    /\ Returned
    /\ Call.calories_prompt_per100 = Some(250)
    /\ \E r \in RowsOf(ranked_df) : r["Calories/Serving"] \in {240, 299}
    /\ \E r \in RowsOf(loaded) : r["Calories/Serving"] = 180 /\ ~Excluded(r, Call)

\* the number a string of decimal digits writes, -1 when it is no such string
RECURSIVE ParseDecimal(_)
ParseDecimal(s) ==
    IF s = <<>> \/ ~\E d \in 1..10 : Digits[d] = s[Len(s)] THEN -1
    ELSE LET last == (CHOOSE d \in 1..10 : Digits[d] = s[Len(s)]) - 1
             init == SubSeq(s, 1, Len(s) - 1)
         IN  IF init = <<>> THEN last
             ELSE IF ParseDecimal(init) < 0 THEN -1
             ELSE 10 * ParseDecimal(init) + last

\* s is N followed by " gram", N the least integer with N * per_serving >= desired
IsServingOf(s, desired, per_serving) ==
    /\ Len(s) > 5
    /\ SubSeq(s, Len(s) - 4, Len(s)) = <<" ", "g", "r", "a", "m">>
    /\ LET N == ParseDecimal(SubSeq(s, 1, Len(s) - 5))
       IN  /\ N >= 0
           /\ str(N) = SubSeq(s, 1, Len(s) - 5)
           /\ N * per_serving >= desired
           /\ (N - 1) * per_serving < desired

\* C9: with desired_calories given every output row carries Serving Size (grams) =
\* "N gram", N = ceil(desired_calories / Calories/Serving), the quotient itself for an
\* exact multiple; without desired_calories no serving size is computed.
C9_ServingSize ==
    Returned =>
        IF IsNone(Call.desired_calories)
        THEN "Serving Size (grams)" \notin result.cols
        ELSE /\ "Serving Size (grams)" \in result.cols
             /\ \A i \in 1..Len(result.rows) :
                    IsServingOf(result.rows[i]["Serving Size (grams)"],
                                Get(Call.desired_calories),
                                result.rows[i]["Calories/Serving"])

\* desired 480 over 240 a serving, an exact multiple: "2 gram"
C9_Witness ==
    /\ Returned
    /\ Call.desired_calories = Some(480)
    /\ \E i \in 1..Len(result.rows) :
           /\ result.rows[i]["Calories/Serving"] = 240
           /\ result.rows[i]["Serving Size (grams)"] = <<"2", " ", "g", "r", "a", "m">>

\* the facets of a food, each with the include string, the priority flag and the
\* negative string of a call
Facets(a) ==
    { [col |-> "Ingredients", prompt |-> a.ingredient_prompt,
       prioritize |-> a.prioritize_ingredient, negative |-> NegativeOf(a, "Ingredient")],
      [col |-> "User type", prompt |-> a.user_type_prompt,
       prioritize |-> a.prioritize_user_type, negative |-> NegativeOf(a, "User Type")],
      [col |-> "Taste", prompt |-> a.taste_prompt,
       prioritize |-> a.prioritize_taste, negative |-> NegativeOf(a, "Taste")] }

RECURSIVE SumOver(_, _)
SumOver(fs, r) ==
    IF fs = {} THEN 0
    ELSE LET f == CHOOSE x \in fs : TRUE
         IN  FacetPoints(r[f.col], f.prompt, f.prioritize) + SumOver(fs \ {f}, r)

===========================================================================
